---- MODULE Spec2Model ----
(***************************************************************************)
(* A model of bowling-api.go: one Game (a 21-slot array of throws and a    *)
(* cursor), its Roll and Score methods, the two HTTP handlers that wrap    *)
(* them, and the unsynchronised sharing of the Game between requests.      *)
(*                                                                         *)
(* Go's int is 64 bits wide; every value the model reaches is below 2^10,  *)
(* so no arithmetic here can wrap and plain integers are used.             *)
(***************************************************************************)
EXTENDS Integers, Sequences, FiniteSets

VARIABLES
    rolls,      \* Game.rolls: the throw slots, indexed from 0
    current,    \* Game.current: the cursor, the slot the next Roll writes
    thrown,     \* history: the pins of every Roll call that succeeded, in order
    outcome,    \* the last call made on the Game and what it returned
    lane,       \* the state of play of a game bowled by the rules
    response,   \* the answer of the last HTTP request
    roller,     \* per concurrent Roll call: its position and its locals
    scorer      \* the concurrent Score call: its position and its locals

vars == <<rolls, current, thrown, outcome, lane, response, roller, scorer>>

----------------------------------------------------------------------------
(* Program constants. *)

allPins == 10

framesPerGame == 10

\* A plausible slip: two throws for each frame, forgetting the tenth frame's bonus throw.
maxThrowsPerGameNoBonus == 2 * framesPerGame

maxThrowsPerGame == 21

----------------------------------------------------------------------------
(* Bounds on the inputs. *)

\* The first FreeThrows throws of a game take any value of the input set;
\* a later throw repeats the throw before it, and a call on a full game
\* takes any value again.
FreeThrows == 4

\* Pin values a caller passes to Roll: negative, legal, and above allPins.
PinValues == {-1, 0, 5, 7, 10, 11}

\* The values the next Roll call is given, out of the input set S.
NextPins(S) ==
    IF current < FreeThrows \/ current \notin DOMAIN rolls
       \/ (current - 1) \notin DOMAIN rolls
    THEN S
    ELSE {p \in S : p = rolls[current - 1]}

----------------------------------------------------------------------------
(* The Game. *)

\* A slip: unrecorded slots start at a sentinel instead of zero.
NewGameSentinel ==
    [rolls |-> [i \in 0 .. (maxThrowsPerGame - 1) |-> -1], current |-> 0]

\* NewGame: make([]int, maxThrowsPerGame) is zero-filled; current is 0.
NewGame ==
    [rolls |-> [i \in 0 .. (maxThrowsPerGame - 1) |-> 0], current |-> 0]

\* A slip: the cursor moves although the write faulted.
RollAdvancesOnFault(rs, cur, pins) ==
    IF cur \in DOMAIN rs
    THEN [rolls |-> [rs EXCEPT ![cur] = pins], current |-> cur + 1, panicked |-> FALSE]
    ELSE [rolls |-> rs, current |-> cur + 1, panicked |-> TRUE]

\* A slip: the cursor is advanced before the write.
RollWritesAfterAdvance(rs, cur, pins) ==
    IF (cur + 1) \in DOMAIN rs
    THEN [rolls |-> [rs EXCEPT ![cur + 1] = pins], current |-> cur + 1, panicked |-> FALSE]
    ELSE [rolls |-> rs, current |-> cur, panicked |-> TRUE]

\* A slip: a full game wraps around and starts overwriting slot 0.
RollWraps(rs, cur, pins) ==
    IF cur \in DOMAIN rs
    THEN [rolls |-> [rs EXCEPT ![cur] = pins], current |-> cur + 1, panicked |-> FALSE]
    ELSE [rolls |-> [rs EXCEPT ![0] = pins], current |-> 1, panicked |-> FALSE]

\* Game.Roll on a game with slots rs and cursor cur.  The index expression
\* gm.rolls[gm.current] is bounds-checked before the store: out of range it
\* panics, and neither the store nor gm.current++ runs.
Roll(rs, cur, pins) ==
    IF cur \in DOMAIN rs
    THEN [rolls |-> [rs EXCEPT ![cur] = pins], current |-> cur + 1, panicked |-> FALSE]
    ELSE [rolls |-> rs, current |-> cur, panicked |-> TRUE]

\* The slots each helper reads, in the order it reads them.
isStrikeReads(throw) == {throw}

framePointsAtReads(throw) == {throw, throw + 1}

strikeBonusForReads(throw) == framePointsAtReads(throw + 1)

isSpareReads(throw) == framePointsAtReads(throw)

spareBonusForReads(throw) == {throw + 2}

isStrike(rs, throw) == rs[throw] = allPins

framePointsAt(rs, throw) == rs[throw] + rs[throw + 1]

\* A slip: the spare's own ten pins are left out, only the bonus is returned.
spareBonusForBonusOnly(rs, throw) == rs[throw + 2]

\* A slip: the bonus of a strike counts one throw only.
strikeBonusForOneThrow(rs, throw) == allPins + rs[throw + 1]

strikeBonusFor(rs, throw) == allPins + framePointsAt(rs, throw + 1)

isSpare(rs, throw) == framePointsAt(rs, throw) = allPins

spareBonusFor(rs, throw) == allPins + rs[throw + 2]

\* Whether every slot of the set idx exists; a read outside panics.
InRange(rs, idx) == idx \subseteq DOMAIN rs

\* The loop state of Score as it stops on an index out of range.
Fault(st, idx) ==
    [st EXCEPT !.reads = st.reads \cup idx, !.panicked = TRUE]

\* The loop state of Score after a frame that scored points and used n throws.
Advance(st, idx, points, n) ==
    [throw |-> st.throw + n, frame |-> st.frame + 1, sum |-> st.sum + points,
     reads |-> st.reads \cup idx, panicked |-> FALSE]

\* One iteration of Score's loop over the slots rs, from loop state st.
ScoreFrame(rs, st) ==
    LET t == st.throw
        strikeIdx == isStrikeReads(t) \cup strikeBonusForReads(t)
        spareIdx == isStrikeReads(t) \cup isSpareReads(t) \cup spareBonusForReads(t)
        openIdx == isStrikeReads(t) \cup isSpareReads(t) \cup framePointsAtReads(t)
    IN  IF ~InRange(rs, isStrikeReads(t)) THEN Fault(st, isStrikeReads(t))
        ELSE IF isStrike(rs, t)
        THEN IF ~InRange(rs, strikeIdx) THEN Fault(st, strikeIdx)
             ELSE Advance(st, strikeIdx, strikeBonusFor(rs, t), 1)
        ELSE IF ~InRange(rs, isSpareReads(t)) THEN Fault(st, isSpareReads(t))
        ELSE IF isSpare(rs, t)
        THEN IF ~InRange(rs, spareIdx) THEN Fault(st, spareIdx)
             ELSE Advance(st, spareIdx, spareBonusFor(rs, t), 2)
        ELSE Advance(st, openIdx, framePointsAt(rs, t), 2)

\* Score's locals as the loop starts: throw, frame := 0, 0 and sum = 0.
ScoreStart ==
    [throw |-> 0, frame |-> 0, sum |-> 0, reads |-> {}, panicked |-> FALSE]

RECURSIVE ScoreLoop(_, _)
ScoreLoop(rs, st) ==
    IF st.frame < framesPerGame /\ ~st.panicked
    THEN ScoreLoop(rs, ScoreFrame(rs, st))
    ELSE st

\* Game.Score, with what it read and how many frames it ran.
ScoreRun(rs) == ScoreLoop(rs, ScoreStart)

\* The value Game.Score returns.
Score(rs) == ScoreRun(rs).sum

----------------------------------------------------------------------------
(* Calls made on the Game one at a time. *)

NoCall == [op |-> "none"]

NoLane == [frame |-> 0]

NoResponse == [status |-> 0]

Idle == [pc |-> "idle"]

InitGame ==
    /\ rolls = NewGame.rolls
    /\ current = NewGame.current
    /\ thrown = <<>>
    /\ outcome = NoCall

Init ==
    /\ InitGame
    /\ lane = NoLane
    /\ response = NoResponse
    /\ roller = <<>>
    /\ scorer = Idle

\* A caller calls gm.Roll(pins) and recovers if it panics.
RollCall(pins) ==
    LET g == Roll(rolls, current, pins)
    IN  /\ rolls' = g.rolls
        /\ current' = g.current
        /\ thrown' = IF g.panicked THEN thrown ELSE Append(thrown, pins)
        /\ outcome' = [op |-> "Roll", pins |-> pins, panicked |-> g.panicked]

\* A slip: Score keeps its throw cursor in the Game instead of a local.
ScoreCallMovesCursor ==
    LET run == ScoreRun(rolls)
    IN  /\ outcome' = [op |-> "Score", ret |-> run.sum, panicked |-> run.panicked,
                        again |-> outcome.op = "Score"]
        /\ current' = run.throw
        /\ UNCHANGED <<rolls, thrown>>

\* A caller calls gm.Score(): it assigns to locals only. "again" tells that
\* the call before this one was a Score call too.
ScoreCall ==
    LET run == ScoreRun(rolls)
    IN  /\ outcome' = [op |-> "Score", ret |-> run.sum, panicked |-> run.panicked,
                        again |-> outcome.op = "Score"]
        /\ UNCHANGED <<rolls, current, thrown>>

RollAny ==
    /\ \E pins \in NextPins(PinValues) : RollCall(pins)
    /\ UNCHANGED <<lane, response, roller, scorer>>

ScoreAny ==
    /\ ScoreCall
    /\ UNCHANGED <<lane, response, roller, scorer>>

Next == RollAny \/ ScoreAny

Spec == Init /\ [][Next]_vars

----------------------------------------------------------------------------
(* Properties of the calls made one at a time (Spec). *)

\* The recorded throws followed by zeros, as a 21-slot array.
Padded(seq) ==
    [i \in DOMAIN rolls |-> IF i < Len(seq) THEN seq[i + 1] ELSE 0]

\* A step that is a Roll call which returned normally.
RollSucceeds == outcome'.op = "Roll" /\ ~outcome'.panicked

\* C2: whatever integers were rolled, in 0 to 21 calls, Score reads only
\* slots 0..20, does not fault, and returns after exactly ten frames.
ScoreNeverFails ==
    LET run == ScoreRun(rolls)
    IN  /\ ~run.panicked
        /\ run.reads \subseteq 0 .. 20
        /\ run.frame = 10
        /\ outcome.op = "Score" => ~outcome.panicked

\* C2 witness: a full game holding a negative value and a value above ten,
\* scored by a call that read the last slot, 20.
ScoreReadsLastSlot ==
    /\ current = 21
    /\ outcome.op = "Score" /\ ~outcome.panicked
    /\ 20 \in ScoreRun(rolls).reads
    /\ \E i \in DOMAIN rolls : rolls[i] < 0
    /\ \E i \in DOMAIN rolls : rolls[i] > 10

\* C3: the cursor stays within 0..21 and counts the Roll calls that succeeded.
CursorCountsRolls ==
    /\ current \in 0 .. 21
    /\ current = Len(thrown)

\* C3 witness: a Roll call has failed on a full game, and 21 calls succeeded.
CursorAtCapacityAfterFailedRoll ==
    /\ outcome.op = "Roll" /\ outcome.panicked
    /\ Len(thrown) = 21

\* C4: a Roll call succeeds while fewer than 21 throws are recorded; with 21
\* recorded it faults, the slots and the cursor keep their values, and Score
\* is what it was before the call.
FullGameRollFaults ==
    [][outcome'.op = "Roll" =>
          IF Len(thrown) < 21
          THEN ~outcome'.panicked /\ Len(thrown') = Len(thrown) + 1
          ELSE /\ outcome'.panicked
               /\ rolls' = rolls
               /\ current' = current
               /\ thrown' = thrown
               /\ Score(rolls') = Score(rolls)]_vars

\* C4 witness: a Roll of a value that differs from the last slot has faulted
\* on a full game that has a score.
FailedRollOnFullGame ==
    /\ outcome.op = "Roll" /\ outcome.panicked
    /\ current = 21
    /\ outcome.pins # rolls[20]
    /\ Score(rolls) > 0

\* C5: a Roll that succeeds with the cursor at n stores its argument in slot
\* n, as given, moves the cursor to n + 1 and changes no other slot.
RollStoresAtCursor ==
    [][RollSucceeds =>
          /\ current \in DOMAIN rolls
          /\ rolls' = [rolls EXCEPT ![current] = outcome'.pins]
          /\ current' = current + 1
          /\ thrown' = Append(thrown, outcome'.pins)]_vars

\* C5 witness: a Roll of 11 was accepted after a 7, in a frame that had seven
\* pins down already, and an earlier Roll stored a negative value.
RollAcceptedIllegalPins ==
    /\ outcome.op = "Roll" /\ ~outcome.panicked /\ outcome.pins = 11
    /\ current >= 3
    /\ rolls[current - 1] = 11 /\ rolls[current - 2] = 7
    /\ rolls[0] = -1

\* A game in which every recorded throw is non-negative.
NonNegative(seq) == \A i \in 1 .. Len(seq) : seq[i] >= 0

ScoreIsPureRead ==
    [][outcome'.op = "Score" =>
          /\ rolls' = rolls
          /\ current' = current
          /\ (outcome.op = "Score" => outcome'.ret = outcome.ret)]_vars

\* C7 witness: two Score calls in a row on a game with throws and a score.
ScoredTwiceInARow ==
    /\ outcome.op = "Score" /\ outcome.again
    /\ current > 0
    /\ outcome.ret > 0

\* C8: the slots from the cursor on hold 0, and a Score call returns the
\* ten-frame score of the recorded throws followed by zeros: 0 for a fresh
\* game, 7 for a game whose only throw is 7.
UnrecordedSlotsAreZero ==
    /\ \A i \in DOMAIN rolls : i >= current => rolls[i] = 0
    /\ outcome.op = "Score" =>
          /\ outcome.ret = Score(Padded(thrown))
          /\ thrown = <<>> => outcome.ret = 0
          /\ thrown = <<7>> => outcome.ret = 7

\* C8 witness: the game whose only throw is 7 has been scored, as 7.
SingleSevenScored ==
    /\ thrown = <<7>>
    /\ outcome.op = "Score" /\ outcome.ret = 7

----------------------------------------------------------------------------
(* A game bowled by the rules of ten-pin bowling (SpecLegal). *)

\* Pin values of a legal throw.
LegalPins == {0, 1, 3, 4, 5, 7, 10}

\* The lane before the first throw: frame 1, first ball, ten pins standing.
\* starts lists the position in thrown at which each frame so far began.
LaneStart ==
    [frame |-> 1, ball |-> 1, standing |-> allPins, first |-> 0,
     starts |-> <<1>>, over |-> FALSE]

\* The lane after a throw of pins, the next throw being number nxt: a frame
\* ends on a strike or on its second ball; the tenth frame goes on for two
\* more throws after a strike and one more after a spare.
Bowl(l, pins, nxt) ==
    LET newFrame == [frame |-> l.frame + 1, ball |-> 1, standing |-> allPins,
                     first |-> 0, starts |-> Append(l.starts, nxt), over |-> FALSE]
        rack(n) == IF n = 0 THEN allPins ELSE n
        finished == [l EXCEPT !.over = TRUE, !.standing = 0]
    IN  IF l.frame < framesPerGame
        THEN IF l.ball = 1 /\ pins < allPins
             THEN [l EXCEPT !.ball = 2, !.standing = allPins - pins, !.first = pins]
             ELSE newFrame
        ELSE IF l.ball = 1
             THEN [l EXCEPT !.ball = 2, !.standing = rack(allPins - pins), !.first = pins]
        ELSE IF l.ball = 2
             THEN IF l.first = allPins \/ pins = l.standing
                  THEN [l EXCEPT !.ball = 3, !.standing = rack(l.standing - pins)]
                  ELSE finished
        ELSE finished

\* The legal values of the next throw: the first FreeThrows throws and the
\* throws of the tenth frame take any value the standing pins allow.
LegalNext ==
    {p \in (IF lane.frame = framesPerGame THEN LegalPins ELSE NextPins(LegalPins)) :
        p <= lane.standing}

\* The standard total of one frame that began at throw number s of seq.
FrameTotal(seq, s) ==
    IF seq[s] = 10 THEN 10 + seq[s + 1] + seq[s + 2]
    ELSE IF seq[s] + seq[s + 1] = 10 THEN 10 + seq[s + 2]
    ELSE seq[s] + seq[s + 1]

RECURSIVE StandardTotalFrom(_, _, _)
StandardTotalFrom(seq, starts, f) ==
    IF f > Len(starts) THEN 0
    ELSE FrameTotal(seq, starts[f]) + StandardTotalFrom(seq, starts, f + 1)

\* The standard ten-pin total of a complete game: the sum over its frames.
StandardTotal(seq, starts) == StandardTotalFrom(seq, starts, 1)

\* n throws of p.
Repeat(p, n) == [i \in 1 .. n |-> p]

InitLegal ==
    /\ InitGame
    /\ lane = LaneStart
    /\ response = NoResponse
    /\ roller = <<>>
    /\ scorer = Idle

RollLegal ==
    /\ ~lane.over
    /\ \E pins \in LegalNext :
          /\ RollCall(pins)
          /\ lane' = Bowl(lane, pins, Len(thrown) + 2)
    /\ UNCHANGED <<response, roller, scorer>>

\* The game is scored once it is complete.
ScoreLegal ==
    /\ lane.over
    /\ outcome.op # "Score"
    /\ ScoreCall
    /\ UNCHANGED <<lane, response, roller, scorer>>

NextLegal == RollLegal \/ ScoreLegal

SpecLegal == InitLegal /\ [][NextLegal]_vars

\* C1: Score of a complete legal game is the standard ten-pin total; 20
\* zeros score 0, 20 ones score 20, 5,5 and zeros score 10, 10,3,4 and zeros
\* score 24, and twelve tens score 300.
LegalGameScoresStandardTotal ==
    (lane.over /\ outcome.op = "Score") =>
        /\ ~outcome.panicked
        /\ Len(lane.starts) = 10
        /\ outcome.ret = StandardTotal(thrown, lane.starts)
        /\ thrown = Repeat(0, 20) => outcome.ret = 0
        /\ thrown = Repeat(1, 20) => outcome.ret = 20
        /\ thrown = <<5, 5>> \o Repeat(0, 18) => outcome.ret = 10
        /\ thrown = <<10, 3, 4>> \o Repeat(0, 16) => outcome.ret = 24
        /\ thrown = Repeat(10, 12) => outcome.ret = 300

\* C1 witness: a complete game with a strike, a spare, open frames and a
\* tenth frame of three strikes has been scored.
MixedGameScored ==
    /\ lane.over /\ outcome.op = "Score"
    /\ thrown = <<10, 3, 7>> \o Repeat(4, 14) \o Repeat(10, 3)
    /\ outcome.ret = 120

\* The five games the claim names, each complete and scored.
GutterGameScored ==
    lane.over /\ outcome.op = "Score" /\ thrown = Repeat(0, 20)

AllOnesScored ==
    lane.over /\ outcome.op = "Score" /\ thrown = Repeat(1, 20)

OneSpareScored ==
    lane.over /\ outcome.op = "Score" /\ thrown = <<5, 5>> \o Repeat(0, 18)

OneStrikeScored ==
    lane.over /\ outcome.op = "Score" /\ thrown = <<10, 3, 4>> \o Repeat(0, 16)

PerfectGameScored ==
    lane.over /\ outcome.op = "Score" /\ thrown = Repeat(10, 12)

----------------------------------------------------------------------------
(* The HTTP handlers (SpecHttp). *)

StatusOK == 200

StatusCreated == 201

StatusBadRequest == 400

StatusMethodNotAllowed == 405

\* No status line was written: the handler panicked, and net/http recovers
\* the panic and closes the connection.
StatusNone == 0

Methods == {"GET", "POST", "PUT"}

Paths == {"/roll", "/score"}

\* Request bodies: an object with an integer pins, an object without pins,
\* an object whose pins is a string, text that is not JSON, and no body.
Bodies ==
    {[shape |-> "pins", pins |-> n] : n \in {4, 10}}
        \cup {[shape |-> s] : s \in {"object", "text-pins", "not-json", "empty"}}

\* json.NewDecoder(r.Body).Decode(&roll) into the zero-valued struct roll:
\* a key that is absent leaves Pins at 0; a value of the wrong type, text
\* that is not JSON and an empty body are errors.
Decode(body) ==
    IF body.shape = "pins" THEN [err |-> FALSE, Pins |-> body.pins]
    ELSE IF body.shape = "object" THEN [err |-> FALSE, Pins |-> 0]
    ELSE [err |-> TRUE, Pins |-> 0]

\* The pins that bodies decode to.
HttpPins == {Decode(b).Pins : b \in Bodies}

Requests ==
    {[method |-> m, path |-> p, body |-> b] :
        m \in Methods, p \in Paths,
        b \in {x \in Bodies : Decode(x).err \/ Decode(x).Pins \in NextPins(HttpPins)}}

\* What a handler leaves behind: the game, the throws it recorded, the answer.
Handled(rs, cur, rec, status, score) ==
    [rolls |-> rs, current |-> cur, recorded |-> rec, status |-> status, score |-> score]

\* A slip: the return after http.Error for a bad body is missing, so the
\* handler goes on and rolls the zero value of roll.Pins.
RollHandlerNoReturnOnBadBody(req) ==
    IF req.method # "POST"
    THEN Handled(rolls, current, <<>>, StatusMethodNotAllowed, 0)
    ELSE LET d == Decode(req.body)
             g == Roll(rolls, current, d.Pins)
         IN  IF g.panicked
             THEN Handled(rolls, current, <<>>, IF d.err THEN StatusBadRequest ELSE StatusNone, 0)
             ELSE Handled(g.rolls, g.current, <<d.Pins>>,
                          IF d.err THEN StatusBadRequest ELSE StatusCreated,
                          Score(g.rolls))

\* RollHandler: the method check, then the body, then gm.Roll,
\* WriteHeader(201) and the score after the throw.
RollHandler(req) ==
    IF req.method # "POST"
    THEN Handled(rolls, current, <<>>, StatusMethodNotAllowed, 0)
    ELSE LET d == Decode(req.body)
             g == Roll(rolls, current, d.Pins)
         IN  IF d.err
             THEN Handled(rolls, current, <<>>, StatusBadRequest, 0)
             ELSE IF g.panicked
             THEN Handled(rolls, current, <<>>, StatusNone, 0)
             ELSE Handled(g.rolls, g.current, <<d.Pins>>, StatusCreated, Score(g.rolls))

\* ScoreHandler: the method check, then the score with the default status.
ScoreHandler(req) ==
    IF req.method # "GET"
    THEN Handled(rolls, current, <<>>, StatusMethodNotAllowed, 0)
    ELSE Handled(rolls, current, <<>>, StatusOK, Score(rolls))

\* main: the routes of the default mux.
Route(req) ==
    IF req.path = "/roll" THEN RollHandler(req) ELSE ScoreHandler(req)

InitHttp ==
    /\ InitGame
    /\ lane = NoLane
    /\ response = NoResponse
    /\ roller = <<>>
    /\ scorer = Idle

\* One request served from start to end.
Serve(req) ==
    LET h == Route(req)
    IN  /\ rolls' = h.rolls
        /\ current' = h.current
        /\ thrown' = thrown \o h.recorded
        /\ response' = [req |-> req, status |-> h.status, score |-> h.score]
        /\ UNCHANGED <<outcome, lane, roller, scorer>>

ServeRoll == \E req \in Requests : req.path = "/roll" /\ Serve(req)

ServeScore == \E req \in Requests : req.path = "/score" /\ Serve(req)

NextHttp == ServeRoll \/ ServeScore

SpecHttp == InitHttp /\ [][NextHttp]_vars

\* The step leaves the throw slots and the cursor as they were.
GameUnchanged == rolls' = rolls /\ current' = current /\ thrown' = thrown

\* C9: /roll without POST and /score without GET answer 405, whatever the
\* body; POST /roll with a body that does not parse answers 400; a request
\* answered 405 or 400 leaves the game unchanged; and a request that changes
\* the game is a POST /roll with a body that parses, records exactly the one
\* throw of the body and answers 201 with the score after that throw.
RejectedRequestsChangeNothing ==
    [][LET req == response'.req
           parses == req.body.shape \in {"pins", "object"}
       IN  /\ (req.path = "/roll" /\ req.method # "POST")
                 => response'.status = 405
           /\ (req.path = "/score" /\ req.method # "GET")
                 => response'.status = 405
           /\ (req.path = "/roll" /\ req.method = "POST" /\ ~parses)
                 => response'.status = 400
           /\ response'.status \in {400, 405} => GameUnchanged
           /\ req.path = "/score" => GameUnchanged
           /\ (response'.status = 201 \/ ~GameUnchanged) =>
                 /\ req.path = "/roll" /\ req.method = "POST" /\ parses
                 /\ response'.status = 201
                 /\ current' = current + 1
                 /\ rolls' = [rolls EXCEPT
                                 ![current] = IF req.body.shape = "pins"
                                              THEN req.body.pins ELSE 0]
                 /\ Len(thrown') = Len(thrown) + 1
                 /\ response'.score = Score(rolls')]_vars

\* C9 witness: a PUT /roll whose body is not JSON was answered 405, not 400,
\* on a game with throws and a score.
WrongMethodAnsweredBeforeBody ==
    /\ response.status = 405
    /\ response.req.path = "/roll" /\ response.req.method = "PUT"
    /\ response.req.body.shape = "not-json"
    /\ current > 0 /\ Score(rolls) > 0

\* On the same kind of game: a body that does not parse answered 400, and a
\* throw recorded and answered 201 with its score.
BadBodyAnswered400 ==
    /\ response.status = 400 /\ response.req.body.shape = "text-pins"
    /\ current > 0 /\ Score(rolls) > 0

ThrowAnswered201 ==
    /\ response.status = 201 /\ response.score = 42
    /\ thrown = <<10, 10, 4>>

\* A POST /roll on a full game gets no answer at all.
FullGameRollGetsNoAnswer ==
    /\ response.status = StatusNone /\ response # NoResponse
    /\ current = 21

----------------------------------------------------------------------------
(* Requests served concurrently on the one shared Game (SpecConc).         *)
(* net/http runs each request in a goroutine of its own and main hands the *)
(* same *Game to both handlers, with no lock.  Roll is modelled by the     *)
(* loads and stores of its two statements; Score by one step per iteration *)
(* of its loop.  Each load and store of a word is a step of its own.       *)

Rollers == {1, 2}

\* Pin values of the concurrent Roll calls; non-zero, so that a slot that
\* was written differs from one that was not.
ConcPins == {3, 4}

\* A Roll call that has not started: its argument, and its locals unset.
RollerStart(p) == [pc |-> "start", pins |-> p, idx |-> 0, tmp |-> 0]

InitConc ==
    /\ InitGame
    /\ lane = NoLane
    /\ response = NoResponse
    /\ roller \in [Rollers -> {RollerStart(p) : p \in ConcPins}]
    /\ scorer = Idle

\* A Roll call is between its first load and its last store.
InFlight(r) == roller[r].pc \in {"store-slot", "load-current", "store-current"}

\* The Score call, if it is running, overlaps a step of Roll call r.
Overlapping(r) ==
    IF scorer.pc = "running"
    THEN [scorer EXCEPT !.overlap = @ \cup {r}]
    ELSE scorer

\* gm.rolls[gm.current] = pins, first half: load gm.current as the index.
LoadCursor(r) ==
    /\ roller[r].pc = "start"
    /\ roller' = [roller EXCEPT ![r].pc = "store-slot", ![r].idx = current]
    /\ scorer' = Overlapping(r)
    /\ UNCHANGED <<rolls, current, thrown, outcome, lane, response>>

\* A slip: the store indexes with the cursor as it is at the store, not with
\* the value the index expression loaded.
StoreSlotAtCursorNow(r) ==
    /\ roller[r].pc = "store-slot"
    /\ IF current \in DOMAIN rolls
       THEN /\ rolls' = [rolls EXCEPT ![current] = roller[r].pins]
            /\ roller' = [roller EXCEPT ![r].pc = "load-current"]
       ELSE /\ rolls' = rolls
            /\ roller' = [roller EXCEPT ![r].pc = "panicked"]
    /\ scorer' = Overlapping(r)
    /\ UNCHANGED <<current, thrown, outcome, lane, response>>

\* gm.rolls[gm.current] = pins, second half: the bounds check and the store
\* at the index loaded before.
StoreSlot(r) ==
    /\ roller[r].pc = "store-slot"
    /\ IF roller[r].idx \in DOMAIN rolls
       THEN /\ rolls' = [rolls EXCEPT ![roller[r].idx] = roller[r].pins]
            /\ roller' = [roller EXCEPT ![r].pc = "load-current"]
       ELSE /\ rolls' = rolls
            /\ roller' = [roller EXCEPT ![r].pc = "panicked"]
    /\ scorer' = Overlapping(r)
    /\ UNCHANGED <<current, thrown, outcome, lane, response>>

\* gm.current++, first half: load gm.current.
LoadCurrent(r) ==
    /\ roller[r].pc = "load-current"
    /\ roller' = [roller EXCEPT ![r].pc = "store-current", ![r].tmp = current]
    /\ scorer' = Overlapping(r)
    /\ UNCHANGED <<rolls, current, thrown, outcome, lane, response>>

\* gm.current++, second half: store the loaded value plus one; Roll returns.
StoreCurrent(r) ==
    /\ roller[r].pc = "store-current"
    /\ current' = roller[r].tmp + 1
    /\ roller' = [roller EXCEPT ![r].pc = "done"]
    /\ thrown' = Append(thrown, roller[r].pins)
    /\ scorer' = Overlapping(r)
    /\ UNCHANGED <<rolls, outcome, lane, response>>

\* gm.Score() is entered: its locals are initialised.
ScoreBegin ==
    /\ scorer.pc = "idle"
    /\ scorer' = [pc |-> "running", st |-> ScoreStart,
                  overlap |-> {r \in Rollers : InFlight(r)}]
    /\ UNCHANGED <<rolls, current, thrown, outcome, lane, response, roller>>

\* One iteration of Score's loop, on the slots as they are now.
ScoreIterate ==
    /\ scorer.pc = "running"
    /\ scorer.st.frame < framesPerGame /\ ~scorer.st.panicked
    /\ scorer' = [scorer EXCEPT !.st = ScoreFrame(rolls, scorer.st)]
    /\ UNCHANGED <<rolls, current, thrown, outcome, lane, response, roller>>

\* Score returns sum.  stale tells that the value returned is not the score
\* of the slots as they are when it returns.
ScoreReturn ==
    /\ scorer.pc = "running"
    /\ ~(scorer.st.frame < framesPerGame /\ ~scorer.st.panicked)
    /\ scorer' = [pc |-> "done", ret |-> scorer.st.sum, overlap |-> scorer.overlap,
                  stale |-> scorer.st.sum # Score(rolls)]
    /\ UNCHANGED <<rolls, current, thrown, outcome, lane, response, roller>>

RollerStep ==
    \E r \in Rollers :
        LoadCursor(r) \/ StoreSlot(r) \/ LoadCurrent(r) \/ StoreCurrent(r)

ScorerStep == ScoreBegin \/ ScoreIterate \/ ScoreReturn

NextConc == RollerStep \/ ScorerStep

SpecConc == InitConc /\ [][NextConc]_vars

\* The slots that hold a throw, and the Roll calls that have returned.
Stored == {i \in DOMAIN rolls : rolls[i] # 0}

Completed == {r \in Rollers : roller[r].pc = "done"}

\* C10: when both concurrent Roll calls have returned after loading the same
\* cursor value, one slot holds one of the two throws, every other slot is
\* still 0, and fewer throws are stored than calls completed; calls that
\* loaded different cursor values store both throws.  A Score call that no
\* Roll step overlapped returns the score of the slots as they are.
ConcurrentRollsLoseThrow ==
    /\ Completed = Rollers =>
          IF roller[1].idx = roller[2].idx
          THEN /\ Stored = {roller[1].idx}
               /\ rolls[roller[1].idx] \in {roller[1].pins, roller[2].pins}
               /\ Cardinality(Stored) < Cardinality(Completed)
               /\ Len(thrown) = 2
          ELSE /\ Stored = {roller[1].idx, roller[2].idx}
               /\ current = 2
    /\ (scorer.pc = "done" /\ scorer.overlap = {}) => ~scorer.stale

\* C10 witness: both Roll calls returned, with different pins, having written
\* the same slot, so one throw is gone and the cursor counts one call; and
\* the Score call that ran alongside returned 0 after the slot was written.
ThrowOverwrittenAndScoreStale ==
    /\ Completed = Rollers
    /\ roller[1].idx = roller[2].idx
    /\ roller[1].pins # roller[2].pins
    /\ Cardinality(Stored) = 1
    /\ current = 1
    /\ scorer.pc = "done" /\ scorer.stale /\ scorer.ret = 0
    /\ scorer.overlap = Rollers

====
